---- MODULE Spec2Model ----
(***************************************************************************)
(* Critical-window extraction pipeline of src/src/data_collection.py:      *)
(* clock_to_seconds, fetch_pbp_live, extract_last_3_minutes and            *)
(* extract_critical_moments.                                               *)
(*                                                                         *)
(* A Python string is a sequence of one-character strings.  A value that   *)
(* may or may not be a string (a clock cell of a DataFrame) is a record    *)
(* [kind, s]: kind "str" with the characters in s, or kind "none" / "num"  *)
(* (None, NaN, a number) with s = << >>.  A character that has no ASCII    *)
(* spelling is written by its code point ("U+0663").                       *)
(*                                                                         *)
(* int(str) yields an arbitrary-precision integer and float(str) the       *)
(* nearest IEEE-754 double.  Both are computed exactly on naturals held as *)
(* sequences of decimal digits; a double is a sign, a mantissa and a       *)
(* binary exponent, or an infinity, or not-a-number.                       *)
(***************************************************************************)
EXTENDS Integers, Sequences, FiniteSets, TLC

\* ------------------------------------------------------------------------
\* Bounds of the model
\* ------------------------------------------------------------------------

\* longest enumerated clock string over PlainAlphabet
MaxClockLen == 4

\* longest enumerated body of a "PT..." clock string over DurationAlphabet
MaxBodyLen == 5

\* most records of an enumerated raw event table
MaxRows == 2

\* most GameReferences of an enumerated game list
MaxGames == 2

\* largest enumerated limit of extract_critical_moments
MaxLimit == 2

\* largest enumerated max_retries of a direct fetch_pbp_live call
MaxRetries == 4

\* ------------------------------------------------------------------------
\* State
\* ------------------------------------------------------------------------

VARIABLES
    clock_arg,      \* clock_to_seconds: the argument
    clock_ret,      \* clock_to_seconds: the value returned
    cpc,            \* clock_to_seconds: "call" | "returned" | "idle"
    pbp_df,         \* extract_last_3_minutes: the argument
    critical,       \* extract_last_3_minutes: the frame returned (or Raised)
    refiltered,     \* extract_last_3_minutes applied to its own result
    xpc,            \* "call" | "filtered" | "refiltered" | "idle"
    games_df,       \* extract_critical_moments: the game list passed in
    limit,          \* extract_critical_moments: [some, n]; some = FALSE is None
    games,          \* games_df after head(limit)
    game_no,        \* position in games of the row the loop is at
    all_critical,   \* the list of per-game frames
    critical_df,    \* the frame returned
    opc,            \* "start" | "loop" | "fetching" | "pacing" | "done" |
                    \* "raised" | "idle"
    game_id,        \* fetch_pbp_live: the argument
    max_retries,    \* fetch_pbp_live: the argument
    attempt,        \* fetch_pbp_live: the loop variable
    pbp_raw,        \* fetch_pbp_live: the frame returned
    fpc,            \* "request" | "backoff" | "returned" | "idle"
    trace,          \* requests, back-off sleeps and pacing sleeps, in order
    fetched         \* the frame fetch_pbp_live returned for each game so far

clock_vars == <<clock_arg, clock_ret, cpc>>

filter_vars == <<pbp_df, critical, refiltered, xpc>>

collect_vars == <<games_df, limit, games, game_no, all_critical, critical_df,
                  opc, fetched>>

fetch_vars == <<game_id, max_retries, attempt, pbp_raw, fpc, trace>>

vars == <<clock_vars, filter_vars, collect_vars, fetch_vars>>

\* ------------------------------------------------------------------------
\* Characters
\* ------------------------------------------------------------------------
\* A character is a one-character string; a character that cannot be written
\* so is written by its code point: "U+0663" is ARABIC-INDIC DIGIT THREE,
\* "U+000B" the vertical tab, "U+00A0" the no-break space.

AsciiDigits == {"0", "1", "2", "3", "4", "5", "6", "7", "8", "9"}

\* The decimal digits (Unicode category Nd) beyond ASCII, by value: the
\* first set holds those of value 0, the tenth those of value 9.
UnicodeDigitsByValue ==
    <<
      { "U+0660", "U+06F0", "U+07C0", "U+0966", "U+09E6", "U+0A66",
        "U+0AE6", "U+0B66", "U+0BE6", "U+0C66", "U+0CE6", "U+0D66",
        "U+0DE6", "U+0E50", "U+0ED0", "U+0F20", "U+1040", "U+1090",
        "U+17E0", "U+1810", "U+1946", "U+19D0", "U+1A80", "U+1A90",
        "U+1B50", "U+1BB0", "U+1C40", "U+1C50", "U+A620", "U+A8D0",
        "U+A900", "U+A9D0", "U+A9F0", "U+AA50", "U+ABF0", "U+FF10",
        "U+104A0", "U+10D30", "U+11066", "U+110F0", "U+11136",
        "U+111D0", "U+112F0", "U+11450", "U+114D0", "U+11650",
        "U+116C0", "U+11730", "U+118E0", "U+11950", "U+11C50",
        "U+11D50", "U+11DA0", "U+16A60", "U+16AC0", "U+16B50",
        "U+1D7CE", "U+1D7D8", "U+1D7E2", "U+1D7EC", "U+1D7F6",
        "U+1E140", "U+1E2F0", "U+1E950", "U+1FBF0" },
      { "U+0661", "U+06F1", "U+07C1", "U+0967", "U+09E7", "U+0A67",
        "U+0AE7", "U+0B67", "U+0BE7", "U+0C67", "U+0CE7", "U+0D67",
        "U+0DE7", "U+0E51", "U+0ED1", "U+0F21", "U+1041", "U+1091",
        "U+17E1", "U+1811", "U+1947", "U+19D1", "U+1A81", "U+1A91",
        "U+1B51", "U+1BB1", "U+1C41", "U+1C51", "U+A621", "U+A8D1",
        "U+A901", "U+A9D1", "U+A9F1", "U+AA51", "U+ABF1", "U+FF11",
        "U+104A1", "U+10D31", "U+11067", "U+110F1", "U+11137",
        "U+111D1", "U+112F1", "U+11451", "U+114D1", "U+11651",
        "U+116C1", "U+11731", "U+118E1", "U+11951", "U+11C51",
        "U+11D51", "U+11DA1", "U+16A61", "U+16AC1", "U+16B51",
        "U+1D7CF", "U+1D7D9", "U+1D7E3", "U+1D7ED", "U+1D7F7",
        "U+1E141", "U+1E2F1", "U+1E951", "U+1FBF1" },
      { "U+0662", "U+06F2", "U+07C2", "U+0968", "U+09E8", "U+0A68",
        "U+0AE8", "U+0B68", "U+0BE8", "U+0C68", "U+0CE8", "U+0D68",
        "U+0DE8", "U+0E52", "U+0ED2", "U+0F22", "U+1042", "U+1092",
        "U+17E2", "U+1812", "U+1948", "U+19D2", "U+1A82", "U+1A92",
        "U+1B52", "U+1BB2", "U+1C42", "U+1C52", "U+A622", "U+A8D2",
        "U+A902", "U+A9D2", "U+A9F2", "U+AA52", "U+ABF2", "U+FF12",
        "U+104A2", "U+10D32", "U+11068", "U+110F2", "U+11138",
        "U+111D2", "U+112F2", "U+11452", "U+114D2", "U+11652",
        "U+116C2", "U+11732", "U+118E2", "U+11952", "U+11C52",
        "U+11D52", "U+11DA2", "U+16A62", "U+16AC2", "U+16B52",
        "U+1D7D0", "U+1D7DA", "U+1D7E4", "U+1D7EE", "U+1D7F8",
        "U+1E142", "U+1E2F2", "U+1E952", "U+1FBF2" },
      { "U+0663", "U+06F3", "U+07C3", "U+0969", "U+09E9", "U+0A69",
        "U+0AE9", "U+0B69", "U+0BE9", "U+0C69", "U+0CE9", "U+0D69",
        "U+0DE9", "U+0E53", "U+0ED3", "U+0F23", "U+1043", "U+1093",
        "U+17E3", "U+1813", "U+1949", "U+19D3", "U+1A83", "U+1A93",
        "U+1B53", "U+1BB3", "U+1C43", "U+1C53", "U+A623", "U+A8D3",
        "U+A903", "U+A9D3", "U+A9F3", "U+AA53", "U+ABF3", "U+FF13",
        "U+104A3", "U+10D33", "U+11069", "U+110F3", "U+11139",
        "U+111D3", "U+112F3", "U+11453", "U+114D3", "U+11653",
        "U+116C3", "U+11733", "U+118E3", "U+11953", "U+11C53",
        "U+11D53", "U+11DA3", "U+16A63", "U+16AC3", "U+16B53",
        "U+1D7D1", "U+1D7DB", "U+1D7E5", "U+1D7EF", "U+1D7F9",
        "U+1E143", "U+1E2F3", "U+1E953", "U+1FBF3" },
      { "U+0664", "U+06F4", "U+07C4", "U+096A", "U+09EA", "U+0A6A",
        "U+0AEA", "U+0B6A", "U+0BEA", "U+0C6A", "U+0CEA", "U+0D6A",
        "U+0DEA", "U+0E54", "U+0ED4", "U+0F24", "U+1044", "U+1094",
        "U+17E4", "U+1814", "U+194A", "U+19D4", "U+1A84", "U+1A94",
        "U+1B54", "U+1BB4", "U+1C44", "U+1C54", "U+A624", "U+A8D4",
        "U+A904", "U+A9D4", "U+A9F4", "U+AA54", "U+ABF4", "U+FF14",
        "U+104A4", "U+10D34", "U+1106A", "U+110F4", "U+1113A",
        "U+111D4", "U+112F4", "U+11454", "U+114D4", "U+11654",
        "U+116C4", "U+11734", "U+118E4", "U+11954", "U+11C54",
        "U+11D54", "U+11DA4", "U+16A64", "U+16AC4", "U+16B54",
        "U+1D7D2", "U+1D7DC", "U+1D7E6", "U+1D7F0", "U+1D7FA",
        "U+1E144", "U+1E2F4", "U+1E954", "U+1FBF4" },
      { "U+0665", "U+06F5", "U+07C5", "U+096B", "U+09EB", "U+0A6B",
        "U+0AEB", "U+0B6B", "U+0BEB", "U+0C6B", "U+0CEB", "U+0D6B",
        "U+0DEB", "U+0E55", "U+0ED5", "U+0F25", "U+1045", "U+1095",
        "U+17E5", "U+1815", "U+194B", "U+19D5", "U+1A85", "U+1A95",
        "U+1B55", "U+1BB5", "U+1C45", "U+1C55", "U+A625", "U+A8D5",
        "U+A905", "U+A9D5", "U+A9F5", "U+AA55", "U+ABF5", "U+FF15",
        "U+104A5", "U+10D35", "U+1106B", "U+110F5", "U+1113B",
        "U+111D5", "U+112F5", "U+11455", "U+114D5", "U+11655",
        "U+116C5", "U+11735", "U+118E5", "U+11955", "U+11C55",
        "U+11D55", "U+11DA5", "U+16A65", "U+16AC5", "U+16B55",
        "U+1D7D3", "U+1D7DD", "U+1D7E7", "U+1D7F1", "U+1D7FB",
        "U+1E145", "U+1E2F5", "U+1E955", "U+1FBF5" },
      { "U+0666", "U+06F6", "U+07C6", "U+096C", "U+09EC", "U+0A6C",
        "U+0AEC", "U+0B6C", "U+0BEC", "U+0C6C", "U+0CEC", "U+0D6C",
        "U+0DEC", "U+0E56", "U+0ED6", "U+0F26", "U+1046", "U+1096",
        "U+17E6", "U+1816", "U+194C", "U+19D6", "U+1A86", "U+1A96",
        "U+1B56", "U+1BB6", "U+1C46", "U+1C56", "U+A626", "U+A8D6",
        "U+A906", "U+A9D6", "U+A9F6", "U+AA56", "U+ABF6", "U+FF16",
        "U+104A6", "U+10D36", "U+1106C", "U+110F6", "U+1113C",
        "U+111D6", "U+112F6", "U+11456", "U+114D6", "U+11656",
        "U+116C6", "U+11736", "U+118E6", "U+11956", "U+11C56",
        "U+11D56", "U+11DA6", "U+16A66", "U+16AC6", "U+16B56",
        "U+1D7D4", "U+1D7DE", "U+1D7E8", "U+1D7F2", "U+1D7FC",
        "U+1E146", "U+1E2F6", "U+1E956", "U+1FBF6" },
      { "U+0667", "U+06F7", "U+07C7", "U+096D", "U+09ED", "U+0A6D",
        "U+0AED", "U+0B6D", "U+0BED", "U+0C6D", "U+0CED", "U+0D6D",
        "U+0DED", "U+0E57", "U+0ED7", "U+0F27", "U+1047", "U+1097",
        "U+17E7", "U+1817", "U+194D", "U+19D7", "U+1A87", "U+1A97",
        "U+1B57", "U+1BB7", "U+1C47", "U+1C57", "U+A627", "U+A8D7",
        "U+A907", "U+A9D7", "U+A9F7", "U+AA57", "U+ABF7", "U+FF17",
        "U+104A7", "U+10D37", "U+1106D", "U+110F7", "U+1113D",
        "U+111D7", "U+112F7", "U+11457", "U+114D7", "U+11657",
        "U+116C7", "U+11737", "U+118E7", "U+11957", "U+11C57",
        "U+11D57", "U+11DA7", "U+16A67", "U+16AC7", "U+16B57",
        "U+1D7D5", "U+1D7DF", "U+1D7E9", "U+1D7F3", "U+1D7FD",
        "U+1E147", "U+1E2F7", "U+1E957", "U+1FBF7" },
      { "U+0668", "U+06F8", "U+07C8", "U+096E", "U+09EE", "U+0A6E",
        "U+0AEE", "U+0B6E", "U+0BEE", "U+0C6E", "U+0CEE", "U+0D6E",
        "U+0DEE", "U+0E58", "U+0ED8", "U+0F28", "U+1048", "U+1098",
        "U+17E8", "U+1818", "U+194E", "U+19D8", "U+1A88", "U+1A98",
        "U+1B58", "U+1BB8", "U+1C48", "U+1C58", "U+A628", "U+A8D8",
        "U+A908", "U+A9D8", "U+A9F8", "U+AA58", "U+ABF8", "U+FF18",
        "U+104A8", "U+10D38", "U+1106E", "U+110F8", "U+1113E",
        "U+111D8", "U+112F8", "U+11458", "U+114D8", "U+11658",
        "U+116C8", "U+11738", "U+118E8", "U+11958", "U+11C58",
        "U+11D58", "U+11DA8", "U+16A68", "U+16AC8", "U+16B58",
        "U+1D7D6", "U+1D7E0", "U+1D7EA", "U+1D7F4", "U+1D7FE",
        "U+1E148", "U+1E2F8", "U+1E958", "U+1FBF8" },
      { "U+0669", "U+06F9", "U+07C9", "U+096F", "U+09EF", "U+0A6F",
        "U+0AEF", "U+0B6F", "U+0BEF", "U+0C6F", "U+0CEF", "U+0D6F",
        "U+0DEF", "U+0E59", "U+0ED9", "U+0F29", "U+1049", "U+1099",
        "U+17E9", "U+1819", "U+194F", "U+19D9", "U+1A89", "U+1A99",
        "U+1B59", "U+1BB9", "U+1C49", "U+1C59", "U+A629", "U+A8D9",
        "U+A909", "U+A9D9", "U+A9F9", "U+AA59", "U+ABF9", "U+FF19",
        "U+104A9", "U+10D39", "U+1106F", "U+110F9", "U+1113F",
        "U+111D9", "U+112F9", "U+11459", "U+114D9", "U+11659",
        "U+116C9", "U+11739", "U+118E9", "U+11959", "U+11C59",
        "U+11D59", "U+11DA9", "U+16A69", "U+16AC9", "U+16B59",
        "U+1D7D7", "U+1D7E1", "U+1D7EB", "U+1D7F5", "U+1D7FF",
        "U+1E149", "U+1E2F9", "U+1E959", "U+1FBF9" }
    >>

UnicodeDigits == UNION {UnicodeDigitsByValue[v + 1] : v \in 0..9}

\* what \d of a str pattern matches, and what int() and float() take for a
\* digit
Digits == AsciiDigits \cup UnicodeDigits

IsDigit(c) == c \in AsciiDigits \/ c \in UnicodeDigits

DigitVal(c) ==
    CASE c = "0" -> 0 [] c = "1" -> 1 [] c = "2" -> 2 [] c = "3" -> 3
      [] c = "4" -> 4 [] c = "5" -> 5 [] c = "6" -> 6 [] c = "7" -> 7
      [] c = "8" -> 8 [] c = "9" -> 9
      [] OTHER -> CHOOSE v \in 0..9 : c \in UnicodeDigitsByValue[v + 1]

\* the characters int() and float() skip around a literal
NumericSpaces ==
    { "\t", "\n", "U+000B", "\f", "\r", " ", "U+0085", "U+00A0",
      "U+1680", "U+2000", "U+2001", "U+2002", "U+2003", "U+2004",
      "U+2005", "U+2006", "U+2007", "U+2008", "U+2009", "U+200A",
      "U+2028", "U+2029", "U+202F", "U+205F", "U+3000" }

\* the characters str.strip() removes: those of str.isspace()
Spaces == NumericSpaces \cup { "U+001C", "U+001D", "U+001E", "U+001F" }

\* ------------------------------------------------------------------------
\* Python string primitives
\* ------------------------------------------------------------------------

Min(S) == CHOOSE x \in S : \A y \in S : x <= y

Max(S) == CHOOSE x \in S : \A y \in S : x >= y

\* s without its leading characters of the set skip
lstrip_of(s, skip) ==
    IF \A i \in 1..Len(s) : s[i] \in skip THEN << >>
    ELSE SubSeq(s,
                CHOOSE i \in 1..Len(s) :
                    s[i] \notin skip /\ \A j \in 1..(i - 1) : s[j] \in skip,
                Len(s))

\* s without its trailing characters of the set skip
rstrip_of(s, skip) ==
    IF \A i \in 1..Len(s) : s[i] \in skip THEN << >>
    ELSE SubSeq(s, 1,
                CHOOSE i \in 1..Len(s) :
                    s[i] \notin skip
                    /\ \A j \in (i + 1)..Len(s) : s[j] \in skip)

lstrip(s) == lstrip_of(s, Spaces)

rstrip(s) == rstrip_of(s, Spaces)

\* str.strip()
strip(s) == rstrip(lstrip(s))

\* str.startswith("PT")
startswith_PT(s) == Len(s) >= 2 /\ s[1] = "P" /\ s[2] = "T"

\* positions of character c in s
Positions(s, c) == {i \in 1..Len(s) : s[i] = c}

AllDigits(s) == Len(s) > 0 /\ \A i \in 1..Len(s) : IsDigit(s[i])

RECURSIVE Pow2(_)
Pow2(n) == IF n = 0 THEN 1 ELSE 2 * Pow2(n - 1)

\* ------------------------------------------------------------------------
\* Python integers of any size
\* ------------------------------------------------------------------------
\* A natural number of any size is the sequence of its decimal digits, most
\* significant first and without leading zeros; << >> is zero.

\* a without its leading zeros
BigNorm(a) ==
    IF \A i \in 1..Len(a) : a[i] = 0 THEN << >>
    ELSE SubSeq(a,
                CHOOSE i \in 1..Len(a) :
                    a[i] # 0 /\ \A j \in 1..(i - 1) : a[j] = 0,
                Len(a))

RECURSIVE BigOfInt(_)
BigOfInt(n) ==
    IF n = 0 THEN << >> ELSE Append(BigOfInt(n \div 10), n % 10)

RECURSIVE BigToInt(_)
BigToInt(a) ==
    IF a = << >> THEN 0
    ELSE BigToInt(SubSeq(a, 1, Len(a) - 1)) * 10 + a[Len(a)]

\* the digit values of a string of digits
DigitSeq(s) == [i \in 1..Len(s) |-> DigitVal(s[i])]

Zeros(n) == [i \in 1..n |-> 0]

\* The digit-by-digit operations split the digits in two halves, so that
\* the depth of the recursion is the logarithm of the length; each looks
\* at the carry it is given first, so that the half the carry comes from is
\* computed before the half it goes to.

\* the number a carry and the digits below it stand for
WithCarry(p) == BigNorm(BigOfInt(p.carry) \o p.digs)

\* the two halves of a product or a sum put together
JoinHigh(hi, lo) == [digs |-> hi.digs \o lo.digs, carry |-> hi.carry]

\* [digs, carry]: the Len(a) low digits and the rest of a * k + c
RECURSIVE MulCarry(_, _, _)
MulHigh(a, k, h, lo) == JoinHigh(MulCarry(SubSeq(a, 1, h), k, lo.carry), lo)

MulCarry(a, k, c) ==
    IF c = 0 /\ a = << >> THEN [digs |-> << >>, carry |-> 0]
    ELSE IF a = << >> THEN [digs |-> << >>, carry |-> c]
    ELSE IF Len(a) = 1
    THEN [digs |-> <<(a[1] * k + c) % 10>>, carry |-> (a[1] * k + c) \div 10]
    ELSE MulHigh(a, k, Len(a) \div 2,
                 MulCarry(SubSeq(a, Len(a) \div 2 + 1, Len(a)), k, c))

\* a * k, for a small k
BigMulSmall(a, k) == WithCarry(MulCarry(a, k, 0))

\* the two halves of a quotient put together
JoinLow(hi, lo) == [digs |-> hi.digs \o lo.digs, rem |-> lo.rem]

\* [digs, rem]: quotient and remainder of (r * 10^Len(a) + a) by k, r < k
RECURSIVE DivRem(_, _, _)
DivLow(a, k, h, hi) == JoinLow(hi, DivRem(SubSeq(a, h + 1, Len(a)), k, hi.rem))

DivRem(a, k, r) ==
    IF r = 0 /\ a = << >> THEN [digs |-> << >>, rem |-> 0]
    ELSE IF a = << >> THEN [digs |-> << >>, rem |-> r]
    ELSE IF Len(a) = 1
    THEN [digs |-> <<(r * 10 + a[1]) \div k>>, rem |-> (r * 10 + a[1]) % k]
    ELSE DivLow(a, k, Len(a) \div 2,
                DivRem(SubSeq(a, 1, Len(a) \div 2), k, r))

\* a \div k, for a small k
BigDivSmall(a, k) == BigNorm(DivRem(a, k, 0).digs)

\* a * 2^n; a shift of more than 20 bits is taken as two shifts of half as
\* many
RECURSIVE BigShl(_, _)
BigShl(a, n) ==
    IF a = << >> THEN << >>
    ELSE IF n <= 20 THEN BigMulSmall(a, Pow2(n))
    ELSE BigShl(BigShl(a, n \div 2), n - n \div 2)

\* a \div 2^n
RECURSIVE BigShr(_, _)
BigShr(a, n) ==
    IF a = << >> THEN << >>
    ELSE IF n <= 20 THEN BigDivSmall(a, Pow2(n))
    ELSE BigShr(BigShr(a, n \div 2), n - n \div 2)

\* a % 2^n = 0
LowBitsZero(a, n) == BigShl(BigShr(a, n), n) = a

RECURSIVE SmallBitLen(_)
SmallBitLen(n) == IF n = 0 THEN 0 ELSE 1 + SmallBitLen(n \div 2)

\* int.bit_length(): a number of more than 6 digits has more than
\* 3 * (Len(a) - 6) bits, which are shifted out and counted first
RECURSIVE BitLen(_)
BitLen(a) ==
    IF Len(a) <= 6 THEN SmallBitLen(BigToInt(a))
    ELSE 3 * (Len(a) - 6) + BitLen(BigShr(a, 3 * (Len(a) - 6)))

BigOdd(a) == a # << >> /\ a[Len(a)] % 2 = 1

\* [digs, carry] of a + b + c, for a and b of one length
RECURSIVE AddCarry(_, _, _)
AddHigh(a, b, h, lo) ==
    JoinHigh(AddCarry(SubSeq(a, 1, h), SubSeq(b, 1, h), lo.carry), lo)

AddCarry(a, b, c) ==
    IF c = 0 /\ a = << >> THEN [digs |-> << >>, carry |-> 0]
    ELSE IF a = << >> THEN [digs |-> << >>, carry |-> c]
    ELSE IF Len(a) = 1
    THEN [digs |-> <<(a[1] + b[1] + c) % 10>>,
          carry |-> (a[1] + b[1] + c) \div 10]
    ELSE AddHigh(a, b, Len(a) \div 2,
                 AddCarry(SubSeq(a, Len(a) \div 2 + 1, Len(a)),
                          SubSeq(b, Len(a) \div 2 + 1, Len(b)), c))

\* a + b, both written with n digits
AddPadded(a, b, n) ==
    WithCarry(AddCarry(Zeros(n - Len(a)) \o a, Zeros(n - Len(b)) \o b, 0))

BigAdd(a, b) == AddPadded(a, b, Max({Len(a), Len(b)}))

\* q or, rounding up, q + 1: half is the bit below q, rest whether anything
\* lies below that bit; a tie goes to the even one
RoundQuotient(q, half, rest) ==
    IF half /\ (rest \/ BigOdd(q)) THEN BigAdd(q, <<1>>) ELSE q

\* a / 2^n (n >= 1) rounded to the nearest integer, a tie to the even one;
\* sticky: the number a stands for has a non-zero part below a's last bit
ShrNearestEven(a, n, sticky) ==
    RoundQuotient(BigShr(a, n), BigOdd(BigShr(a, n - 1)),
                  sticky \/ ~LowBitsZero(a, n - 1))

\* ------------------------------------------------------------------------
\* Python floats: IEEE 754 binary64
\* ------------------------------------------------------------------------
\* A float is [kind, neg, m, t]: kind "finite" with the value
\* (-1)^neg * m / 2^t, m a natural number below 2^53 and t <= 1074; kind
\* "inf" (signed by neg); kind "nan"; kind "error" for the exception raised
\* in place of a float.

MantissaBits == 53

MaxExponent == 1024

MinExponent == 0 - 1074

Float(neg, m, t) == [kind |-> "finite", neg |-> neg, m |-> m, t |-> t]

Inf(neg) == [kind |-> "inf", neg |-> neg, m |-> << >>, t |-> 0]

NotANumber == [kind |-> "nan", neg |-> FALSE, m |-> << >>, t |-> 0]

NoFloat == [kind |-> "error", neg |-> FALSE, m |-> << >>, t |-> 0]

\* m / 2^t when it is below 2^1024, infinity otherwise
Finite(neg, m, t) ==
    IF BitLen(m) - t > MaxExponent THEN Inf(neg) ELSE Float(neg, m, t)

\* the double nearest to s / 2^t, s of L bits
RoundToDouble(neg, s, t, L) ==
    IF L <= MantissaBits THEN Float(neg, s, t)
    ELSE Finite(neg, ShrNearestEven(s, L - MantissaBits, FALSE),
                t - (L - MantissaBits))

\* the whole part of a / 10^f
Quotient(a, f) == IF Len(a) > f THEN SubSeq(a, 1, Len(a) - f) ELSE << >>

\* a / 10^f has a fraction
Remainder(a, f) == \E i \in 1..Len(a) : i > Len(a) - f /\ a[i] # 0

\* The double nearest to a / (2^u * 10^f), given as a = A * 2^u: u is grown
\* until the quotient by 10^f has a bit to round on (L is its bit length),
\* but not past the exponent of the smallest double.
RECURSIVE Scale(_, _, _, _)
ScaleBy(neg, a, f, u, d) == Scale(neg, BigShl(a, d), f, u + d)

RoundAt(neg, a, f, u, k) ==
    Finite(neg, ShrNearestEven(Quotient(a, f), k, Remainder(a, f)), u - k)

ScaleStep(neg, a, f, u, L) ==
    IF L <= MantissaBits /\ u < 1 - MinExponent
    THEN ScaleBy(neg, a, f, u,
                 Min({IF L > 0 THEN MantissaBits + 1 - L
                      ELSE Max({4, 3 * (f - Len(a))}),
                      1 - MinExponent - u}))
    ELSE RoundAt(neg, a, f, u, Max({L - MantissaBits, u + MinExponent}))

Scale(neg, a, f, u) == ScaleStep(neg, a, f, u, BitLen(Quotient(a, f)))

\* the double nearest to a * 10^exp10, a without leading zeros
NearestOf(neg, a, exp10) ==
    IF a = << >> THEN Float(neg, << >>, 0)
    ELSE IF Len(a) + exp10 > 309 THEN Inf(neg)
    ELSE IF Len(a) + exp10 < 0 - 324 THEN Float(neg, << >>, 0)
    ELSE Scale(neg, IF exp10 >= 0 THEN a \o Zeros(exp10) ELSE a,
               IF exp10 >= 0 THEN 0 ELSE 0 - exp10, 0)

\* the double nearest to digs * 10^exp10, digs a sequence of digit values
nearest_double(neg, digs, exp10) == NearestOf(neg, BigNorm(digs), exp10)

\* a float that is no infinity, OverflowError for an infinity
NoOverflow(d) == IF d.kind = "inf" THEN NoFloat ELSE d

\* float(<int>) of a natural number: OverflowError past the largest double
float_of_int(a) ==
    IF Len(a) > 309 THEN NoFloat
    ELSE NoOverflow(RoundToDouble(FALSE, a, 0, BitLen(a)))

\* the sum of two finite floats that are not negative, as s / 2^t
RoundSum(s, t) == RoundToDouble(FALSE, s, t, BitLen(s))

AddAligned(x, y, t) ==
    RoundSum(BigAdd(BigShl(x.m, t - x.t), BigShl(y.m, t - y.t)), t)

\* x + y of two floats that are not negative
float_add(x, y) ==
    IF x.kind = "error" \/ y.kind = "error" THEN NoFloat
    ELSE IF x.kind = "nan" \/ y.kind = "nan" THEN NotANumber
    ELSE IF x.kind = "inf" \/ y.kind = "inf" THEN Inf(FALSE)
    ELSE AddAligned(x, y, Max({x.t, y.t}))

\* an int result: [ok, neg, val]; ok = FALSE stands for the exception raised
NoInt == [ok |-> FALSE, neg |-> FALSE, val |-> << >>]

\* int(<float>): truncation towards zero; OverflowError for an infinity and
\* ValueError for a NaN
int_of_float(f) ==
    IF f.kind # "finite" THEN NoInt
    ELSE [ok |-> TRUE, neg |-> f.neg,
          val |-> IF f.t >= 0 THEN BigShr(f.m, f.t) ELSE BigShl(f.m, 0 - f.t)]

\* round(<float>): the nearest integer, a tie to the even one; OverflowError
\* for an infinity and ValueError for a NaN
round_of_float(f) ==
    IF f.kind # "finite" THEN NoInt
    ELSE [ok |-> TRUE, neg |-> f.neg,
          val |-> IF f.t > 0 THEN ShrNearestEven(f.m, f.t, FALSE)
                  ELSE BigShl(f.m, 0 - f.t)]

\* an int result as an integer of the model, for a magnitude below 2^31 (a
\* clock of more than 68 years has no value here)
IntVal(r) == IF r.neg THEN 0 - BigToInt(r.val) ELSE BigToInt(r.val)

\* the int a branch of clock_to_seconds returns, 0 when the conversion raised
int_or_zero(r) == IF r.ok THEN IntVal(r) ELSE 0

\* ------------------------------------------------------------------------
\* int(<str>) and float(<str>)
\* ------------------------------------------------------------------------

\* the literal int() and float() read: the string without the whitespace
\* around it
strip_numeric(s) == rstrip_of(lstrip_of(s, NumericSpaces), NumericSpaces)

HasSign(s) == s # << >> /\ Head(s) \in {"+", "-"}

Unsigned(s) == IF HasSign(s) THEN Tail(s) ELSE s

IsNegative(s) == s # << >> /\ Head(s) = "-"

\* A numeric literal may group its digits with single underscores, each
\* between two digits.
UnderscoresOk(s) ==
    \A i \in Positions(s, "_") :
        i > 1 /\ i < Len(s) /\ IsDigit(s[i - 1]) /\ IsDigit(s[i + 1])

IsNotUnderscore(c) == c # "_"

Literal(s) == SelectSeq(s, IsNotUnderscore)

\* sys.get_int_max_str_digits(): int() of more digits raises ValueError
MaxStrDigits == 4300

\* the int that a sign and a string of digits write
IntOfDigits(neg, u) ==
    IF AllDigits(u) /\ Len(u) <= MaxStrDigits
    THEN [ok |-> TRUE, neg |-> neg, val |-> BigNorm(DigitSeq(u))]
    ELSE NoInt

\* the int that a literal without whitespace around it writes
IntOfLiteral(t) ==
    IF UnderscoresOk(Unsigned(t))
    THEN IntOfDigits(IsNegative(t), Literal(Unsigned(t)))
    ELSE NoInt

\* int(<str>): [ok, neg, val]; ok = FALSE stands for ValueError.
\* Surrounding whitespace is ignored, one optional sign, then digits only.
py_int(str) == IntOfLiteral(strip_numeric(str))

NoMantissa == [ok |-> FALSE, digs |-> << >>, frac |-> 0]

\* float() refuses (ValueError) a literal of more digits than this, its
\* leading zeros aside, and one of more digits than this after the point
MaxDigits == 1000000000

\* The mantissa with whole part ip and fraction fp. The digits that count
\* towards MaxDigits are those from the first that is not a zero onwards,
\* before or after the point.
PointMantissa(ip, fp) ==
    IF /\ ip = << >> \/ AllDigits(ip)
       /\ fp = << >> \/ AllDigits(fp)
       /\ ~(ip = << >> /\ fp = << >>)
       /\ Len(fp) <= MaxDigits
       /\ Len(BigNorm(DigitSeq(ip \o fp))) <= MaxDigits
    THEN [ok |-> TRUE, digs |-> ip \o fp, frac |-> Len(fp)]
    ELSE NoMantissa

\* The mantissa of a float literal: digits [ "." [digits] ] or "." digits,
\* as [ok, digs, frac]: the digits without the point and how many of them
\* follow it.
Mantissa(m) ==
    LET dots == Positions(m, ".")
    IN  IF Cardinality(dots) > 1 THEN NoMantissa
        ELSE IF dots = {} THEN PointMantissa(m, << >>)
        ELSE PointMantissa(SubSeq(m, 1, Min(dots) - 1),
                           SubSeq(m, Min(dots) + 1, Len(m)))

Lower(c) ==
    CASE c = "I" -> "i" [] c = "N" -> "n" [] c = "F" -> "f" [] c = "T" -> "t"
      [] c = "Y" -> "y" [] c = "A" -> "a" [] OTHER -> c

LowerCase(s) == [i \in 1..Len(s) |-> Lower(s[i])]

NoLiteral == [kind |-> "error", neg |-> FALSE, digs |-> << >>, exp10 |-> 0]

\* the decimal with mantissa m and exponent e
Number(neg, m, e) ==
    IF m.ok
    THEN [kind |-> "number", neg |-> neg, digs |-> m.digs, exp10 |-> e - m.frac]
    ELSE NoLiteral

\* float() takes an exponent of more than 9 digits, leading zeros aside, or
\* of more than this, as this
MaxAbsExp == 1100000000

\* the value of the digits d of an exponent, d without leading zeros
ExponentDigits(d) ==
    IF Len(d) > 9 THEN MaxAbsExp ELSE Min({BigToInt(d), MaxAbsExp})

\* the exponent that a string [sign] digits writes
Exponent(xs) ==
    IF IsNegative(xs) THEN 0 - ExponentDigits(BigNorm(DigitSeq(Unsigned(xs))))
    ELSE ExponentDigits(BigNorm(DigitSeq(Unsigned(xs))))

\* <mantissa> e <exponent>
Scientific(neg, ms, xs) ==
    IF AllDigits(Unsigned(xs)) THEN Number(neg, Mantissa(ms), Exponent(xs))
    ELSE NoLiteral

\* the decimal u writes, es the positions of an exponent letter in it
Decimal(neg, u, es) ==
    IF es = {} THEN Number(neg, Mantissa(u), 0)
    ELSE IF Cardinality(es) > 1 THEN NoLiteral
    ELSE Scientific(neg, SubSeq(u, 1, Min(es) - 1),
                    SubSeq(u, Min(es) + 1, Len(u)))

\* the decimal v writes once its underscores are dropped
Grouped(neg, v, u) ==
    IF UnderscoresOk(v)
    THEN Decimal(neg, u, Positions(u, "e") \cup Positions(u, "E"))
    ELSE NoLiteral

\* what v writes, w being v in lower case
Named(neg, v, w) ==
    IF w \in {<<"i","n","f">>, <<"i","n","f","i","n","i","t","y">>}
    THEN [kind |-> "inf", neg |-> neg, digs |-> << >>, exp10 |-> 0]
    ELSE IF w = <<"n","a","n">>
    THEN [kind |-> "nan", neg |-> neg, digs |-> << >>, exp10 |-> 0]
    ELSE Grouped(neg, v, Literal(v))

\* what a literal without whitespace around it writes
FloatOfLiteral(t) == Named(IsNegative(t), Unsigned(t), LowerCase(Unsigned(t)))

\* What float() reads in a string: [kind, neg, digs, exp10], kind "number"
\* for the decimal digs * 10^exp10 (digs a string of digits), "inf", "nan",
\* or "error" for ValueError.
float_literal(str) == FloatOfLiteral(strip_numeric(str))

\* the float of what float() has read
FloatOf(l) ==
    CASE l.kind = "error"  -> NoFloat
      [] l.kind = "nan"    -> NotANumber
      [] l.kind = "inf"    -> Inf(l.neg)
      [] l.kind = "number" -> nearest_double(l.neg, DigitSeq(l.digs), l.exp10)

\* float(<str>): the double nearest to the decimal literal
py_float(str) == FloatOf(float_literal(str))

\* ------------------------------------------------------------------------
\* re.search of the two patterns of clock_to_seconds
\* ------------------------------------------------------------------------

\* index of the first character of s[lo..hi] that is no digit, hi + 1 when
\* all are digits
RECURSIVE FirstNonDigit(_, _, _)
SecondHalf(s, mid, hi, l) ==
    IF l <= mid THEN l ELSE FirstNonDigit(s, mid + 1, hi)

FirstNonDigit(s, lo, hi) ==
    IF lo > hi THEN hi + 1
    ELSE IF lo = hi THEN (IF IsDigit(s[lo]) THEN hi + 1 ELSE lo)
    ELSE SecondHalf(s, (lo + hi) \div 2, hi,
                    FirstNonDigit(s, lo, (lo + hi) \div 2))

\* last index of the maximal run of digits that starts at i
DigitRunEnd(s, i) == FirstNonDigit(s, i + 1, Len(s)) - 1

\* e when the character after position e is c, 0 otherwise
EndBefore(s, e, c) == IF e < Len(s) /\ s[e + 1] = c THEN e ELSE 0

\* end index of a match of (\d+)M anchored at i, 0 when there is none
MinutesMatchEnd(s, i) ==
    IF ~IsDigit(s[i]) THEN 0 ELSE EndBefore(s, DigitRunEnd(s, i), "M")

\* end index of group 1 of a match of (\d+(\.\d+)?)S whose \d+ ends at e
SecondsEnd(s, e) ==
    IF e + 2 <= Len(s) /\ s[e + 1] = "." /\ IsDigit(s[e + 2])
    THEN EndBefore(s, DigitRunEnd(s, e + 2), "S")
    ELSE EndBefore(s, e, "S")

\* end index of group 1 of a match of (\d+(\.\d+)?)S anchored at i, 0 when none
SecondsMatchEnd(s, i) ==
    IF ~IsDigit(s[i]) THEN 0 ELSE SecondsEnd(s, DigitRunEnd(s, i))

\* s[i..e], << >> for no match (I the positions a match starts at)
FirstMinutes(s, I) ==
    IF I = {} THEN << >> ELSE SubSeq(s, Min(I), MinutesMatchEnd(s, Min(I)))

FirstSeconds(s, I) ==
    IF I = {} THEN << >> ELSE SubSeq(s, Min(I), SecondsMatchEnd(s, Min(I)))

\* re.search(r"(\d+)M", s): group(1) of the leftmost match, << >> for no match
minutes_match(s) ==
    FirstMinutes(s, {i \in 1..Len(s) : MinutesMatchEnd(s, i) > 0})

\* re.search(r"(\d+(\.\d+)?)S", s): group(1) of the leftmost match
seconds_match(s) ==
    FirstSeconds(s, {i \in 1..Len(s) : SecondsMatchEnd(s, i) > 0})

\* ------------------------------------------------------------------------
\* clock_to_seconds
\* ------------------------------------------------------------------------

\* line 121: minutes, 0 without a match
iso_minutes(mm) ==
    IF mm # << >> THEN py_int(mm) ELSE [ok |-> TRUE, neg |-> FALSE, val |-> << >>]

\* line 122: seconds, 0.0 without a match
iso_seconds(sm) == IF sm # << >> THEN py_float(sm) ELSE Float(FALSE, << >>, 0)

\* line 123: the float minutes * 60 + seconds, NoFloat for an exception
iso_add(minutes, seconds) ==
    IF minutes.ok
    THEN float_add(float_of_int(BigMulSmall(minutes.val, 60)), seconds)
    ELSE NoFloat

\* lines 118-123: minutes * 60 + seconds of the two matches
iso_sum(s) == iso_add(iso_minutes(minutes_match(s)), iso_seconds(seconds_match(s)))

\* lines 115-123: the ISO8601 branch, on the stripped string; an exception
\* is caught (-> 0)
clock_iso(s) == int_or_zero(round_of_float(iso_sum(s)))

\* line 128: int(minutes) * 60 + int(float(seconds)), 0 for an exception
colon_sum(minutes, seconds) ==
    IF minutes.ok /\ seconds.ok THEN IntVal(minutes) * 60 + IntVal(seconds)
    ELSE 0

\* line 127: the two parts around the colon at c
colon_split(s, c) ==
    colon_sum(py_int(SubSeq(s, 1, c - 1)),
              int_of_float(py_float(SubSeq(s, c + 1, Len(s)))))

\* lines 126-128: the 'MM:SS' branch; a failed unpack or cast is caught (-> 0)
clock_colon(s) ==
    IF Cardinality(Positions(s, ":")) # 1 THEN 0
    ELSE colon_split(s, Min(Positions(s, ":")))

\* line 131: the fallback cast
clock_cast(s) == int_or_zero(int_of_float(py_float(s)))

clock_to_seconds(clock_str) ==
    IF clock_str.kind # "str" \/ strip(clock_str.s) = << >> THEN 0
    ELSE LET s == strip(clock_str.s)
         IN  IF startswith_PT(s) THEN clock_iso(s)
             ELSE IF Positions(s, ":") # {} THEN clock_colon(s)
             ELSE clock_cast(s)

\* ------------------------------------------------------------------------
\* Clock inputs
\* ------------------------------------------------------------------------

Str(chars) == [kind |-> "str", s |-> chars]

\* None (a missing clock) and a number (a clock cell that is not a string)
NoneClock == [kind |-> "none", s |-> << >>]

NumClock == [kind |-> "num", s |-> << >>]

\* "U+0663" is ARABIC-INDIC DIGIT THREE
PlainAlphabet == {"0", "5", ":", ".", "-", " ", "x", "U+0663"}

DurationAlphabet == {"0", "5", ".", "M", "S", "U+0663"}

SeqsUpTo(A, n) == UNION {[1..k -> A] : k \in 0..n}

\* the clock strings named by the documentation of the parser
ExampleClocks ==
    { <<"0","2",":","3","4">>, <<"0","0",":","0","0">>,
      <<"0","2",":","5","9",".","9">>, <<"1","5","4",".","9">>,
      <<"P","T","2","M","3","4",".","0","0","S">>, <<"P","T","0","M","5","S">>,
      <<"P","T","3","M">>, <<"P","T","5","S">>, <<"P","T">>,
      <<"g","a","r","b","a","g","e">>, <<"1",":","2",":","3">>, <<"a",":","b">>,
      <<"-","1",":","3","0">>, <<" ","0","3",":","0","0"," ">>,
      <<"P","T","0","3","M","0","1",".","0","0","S">>,
      <<"P","T","1","M","2",".","5","S">>, <<"P","T","1","M","3",".","5","S">>,
      <<" ","P","T","1","2","M"," ">>, <<"P","T","x","5","M">>,
      <<"P","T","x">> }

Nines(n) == [i \in 1..n |-> "9"]

\* clock strings with digits and whitespace beyond ASCII, with literals of
\* more digits than a float holds, with infinities and NaN
LongClocks ==
    { <<"P","T","U+0663","M">>, <<"U+0663",":","U+0660","U+0665">>,
      <<"U+0661","U+0662">>, <<"U+00A0","5">>, <<"1","\t",":","5">>,
      <<"\r","\n","7","\f">>, <<"5","U+001C">>, <<"1","U+001C",":","5">>,
      <<"1",":","5","U+001C">>, <<"U+3000","0","2",":","3","4","U+2003">>,
      <<"P","T","1","M","0",".","5","0","0","0","0","0","0","0","0","0","0",
        "0","0","0","0","1","S">>,
      <<"P","T","9","9","9","9","9","M","0",".","5","0","0","0","0","0","0",
        "0","0","0","1","S">>,
      <<"P","T","1",".","4">> \o Nines(16) \o <<"S">>,
      <<"P","T","0",".","4">> \o Nines(16) \o <<"S">>,
      <<"P","T">> \o Nines(400) \o <<"M">>,
      <<"P","T","1","M">> \o Nines(400) \o <<"S">>,
      <<"1",":","5","9",".">> \o Nines(17),
      <<"0",".">> \o Nines(17),
      <<"1","e","4","0","0">>, <<"1",":","1","e","4","0","0">>,
      <<"1","e","-","4","0","0">>, <<"1","e","2">>, <<"1","_","0">>,
      <<"i","n","f">>, <<"-","i","n","f">>, <<"n","a","n">>,
      <<"I","n","f","i","n","i","t","y">>, <<"1",":","n","a","n">>,
      <<"1",":","-","0",".","5">>, <<"-","0",".","5">> }

ClockInputs ==
    {NoneClock, NumClock}
    \cup {Str(s) : s \in SeqsUpTo(PlainAlphabet, MaxClockLen)}
    \cup {Str(<<"P", "T">> \o b) : b \in SeqsUpTo(DurationAlphabet, MaxBodyLen)}
    \cup {Str(s) : s \in ExampleClocks \cup LongClocks}

\* ------------------------------------------------------------------------
\* DataFrames
\* ------------------------------------------------------------------------
\* A numeric cell is [t, v]: t = "int" with the value in v, "nan" (None / NaN),
\* "str" (a string that is no integer literal) or, in a feed record only,
\* "absent" (the record has no such key).  A clock cell is [kind, s] as above,
\* with kind "absent" for a record without the key.

IntCell(n) == [t |-> "int", v |-> n]

NaN == [t |-> "nan", v |-> 0]

Absent == [t |-> "absent", v |-> 0]

BadStr == [t |-> "str", v |-> 0]

AbsentClock == [kind |-> "absent", s |-> << >>]

NoValue == "NaN"

FeedFields == {"period", "clock", "homeScore", "awayScore"}

\* the columns pd.DataFrame(actions) gets: every key some record has
FrameColumns(actions) ==
    {f \in FeedFields :
        \E i \in 1..Len(actions) :
            IF f = "clock" THEN actions[i].clock.kind # "absent"
            ELSE actions[i][f].t # "absent"}

Cell(c) == IF c.t = "absent" THEN NaN ELSE c

ClockCell(c) == IF c.kind = "absent" THEN NoneClock ELSE c

\* one row of pd.DataFrame(actions): a missing key reads as NaN; index is the
\* row label, the position of the record in the list
FrameRow(a, i) ==
    [index |-> i - 1, period |-> Cell(a.period), clock |-> ClockCell(a.clock),
     homeScore |-> Cell(a.homeScore), awayScore |-> Cell(a.awayScore),
     time_remaining |-> NaN, score_diff |-> NaN,
     GAME_ID |-> NoValue, GAME_DATE |-> NoValue, MATCHUP |-> NoValue]

Frame(cols, rows) == [raised |-> FALSE, columns |-> cols, rows |-> rows]

\* pd.DataFrame()
EmptyFrame == Frame({}, << >>)

\* an exception left the function instead of a frame
Raised == [raised |-> TRUE, columns |-> {}, rows |-> << >>]

\* pd.DataFrame(actions)
DataFrame(actions) ==
    Frame(FrameColumns(actions),
          [i \in 1..Len(actions) |-> FrameRow(actions[i], i)])

\* DataFrame.empty: no row or no column
empty(df) == df.columns = {} \/ df.rows = << >>

\* ------------------------------------------------------------------------
\* extract_last_3_minutes
\* ------------------------------------------------------------------------

\* with_time_remaining adding to the value the row already carries
with_time_remaining_added(row) ==
    [row EXCEPT !.time_remaining =
        IntCell(row.time_remaining.v + clock_to_seconds(row.clock))]

\* line 189
with_time_remaining(row) ==
    [row EXCEPT !.time_remaining = IntCell(clock_to_seconds(row.clock))]

\* fillna(0).astype(int) of one cell (a cell of t "str" raises before)
fillna_int(c) == IF c.t = "int" THEN c ELSE IntCell(0)

\* lines 194-199; both is line 194's test
with_score_diff(row, both) ==
    IF both
    THEN [row EXCEPT !.homeScore = fillna_int(row.homeScore),
                     !.awayScore = fillna_int(row.awayScore),
                     !.score_diff = IntCell(fillna_int(row.homeScore).v
                                        - fillna_int(row.awayScore).v)]
    ELSE [row EXCEPT !.score_diff = IntCell(0)]

\* in_window with time_remaining < 180
in_window_exclusive(row) ==
    /\ row.period.t = "int"
    /\ \/ row.period.v = 4 /\ row.time_remaining.v < 180
       \/ row.period.v > 4

\* lines 202-204: mask_last3_q4 | mask_ot; a NaN period compares False
in_window(row) ==
    /\ row.period.t = "int"
    /\ \/ row.period.v = 4 /\ row.time_remaining.v <= 180
       \/ row.period.v > 4

\* line 195-196: astype(int) raises ValueError on a non-numeric string
astype_raises(df) ==
    \E i \in 1..Len(df.rows) :
        df.rows[i].homeScore.t = "str" \/ df.rows[i].awayScore.t = "str"

\* line 203: '>' between a str and an int raises TypeError
compare_raises(df) == \E i \in 1..Len(df.rows) : df.rows[i].period.t = "str"

\* extract_last_3_minutes without the test of line 184: the column lookup of
\* line 189 or 202 raises KeyError
extract_last_3_minutes_unchecked(df_in) ==
    IF empty(df_in) THEN df_in
    ELSE IF "period" \notin df_in.columns \/ "clock" \notin df_in.columns
    THEN Raised
    ELSE LET both == "homeScore" \in df_in.columns
                     /\ "awayScore" \in df_in.columns
             scored(row) == with_score_diff(with_time_remaining(row), both)
             df == [i \in 1..Len(df_in.rows) |-> scored(df_in.rows[i])]
         IN  IF (both /\ astype_raises(df_in)) \/ compare_raises(df_in)
             THEN Raised
             ELSE Frame(df_in.columns \cup {"time_remaining", "score_diff"},
                        SelectSeq(df, in_window))

extract_last_3_minutes(df_in) ==
    IF empty(df_in) THEN df_in
    ELSE IF "period" \notin df_in.columns \/ "clock" \notin df_in.columns
    THEN EmptyFrame
    ELSE LET both == "homeScore" \in df_in.columns
                     /\ "awayScore" \in df_in.columns
             scored(row) == with_score_diff(with_time_remaining(row), both)
             df == [i \in 1..Len(df_in.rows) |-> scored(df_in.rows[i])]
         IN  IF (both /\ astype_raises(df_in)) \/ compare_raises(df_in)
             THEN Raised
             ELSE Frame(df_in.columns \cup {"time_remaining", "score_diff"},
                        SelectSeq(df, in_window))

\* ------------------------------------------------------------------------
\* The feed and the game index
\* ------------------------------------------------------------------------

RawEvent(p, c, h, a) == [period |-> p, clock |-> c, homeScore |-> h, awayScore |-> a]

C0300 == Str(<<"0", "3", ":", "0", "0">>)

C0301 == Str(<<"P", "T", "0", "3", "M", "0", "1", ".", "0", "0", "S">>)

C0430 == Str(<<"0", "4", ":", "3", "0">>)

CGarbage == Str(<<"x">>)

CBrokenDuration == Str(<<"P", "T", "x", "5", "M">>)

\* what the endpoint holds for each game: G1 ends in overtime, G2 has no
\* event in the window, G3 has no period key in any record, G4 carries a
\* score that is no number, G5 has one event, in overtime
FeedActions(g) ==
    CASE g = "G1" -> << RawEvent(IntCell(4), C0301, IntCell(80), IntCell(75)),
                        RawEvent(IntCell(4), C0300, IntCell(80), IntCell(77)),
                        RawEvent(IntCell(5), C0430, Absent, IntCell(90)),
                        RawEvent(IntCell(4), CGarbage, IntCell(92), IntCell(90)) >>
      [] g = "G2" -> << RawEvent(IntCell(3), C0300, IntCell(50), IntCell(40)) >>
      [] g = "G3" -> << RawEvent(Absent, C0300, IntCell(1), IntCell(2)) >>
      [] g = "G4" -> << RawEvent(IntCell(4), C0300, BadStr, IntCell(75)) >>
      [] g = "G5" -> << RawEvent(IntCell(5), C0300, IntCell(99), IntCell(99)) >>

\* the games whose records hold integers or nothing in period and scores
GameIds == {"G1", "G2", "G3", "G5"}

\* with the game whose records hold a malformed value
AnyGameIds == GameIds \cup {"G4"}

\* a row of games_df
GameRef(g) == [GAME_ID |-> g, GAME_DATE |-> <<"date", g>>, MATCHUP |-> <<"matchup", g>>]

GameRefs == {GameRef(g) : g \in GameIds}

AnyGameRefs == {GameRef(g) : g \in AnyGameIds}

NoLimit == [some |-> FALSE, n |-> 0]

Limit(n) == [some |-> TRUE, n |-> n]

Limits == {NoLimit} \cup {Limit(n) : n \in 0..MaxLimit}

\* line 136: the default of max_retries
DefaultMaxRetries == 3

\* ------------------------------------------------------------------------
\* fetch_pbp_live
\* ------------------------------------------------------------------------

Event(e) == [e |-> e, game |-> game_id, no |-> game_no, attempt |-> attempt]

\* lines 156-157: the frame of the actions, every row tagged
tagged(actions, g) ==
    LET df == DataFrame(actions)
    IN  Frame(df.columns \cup {"GAME_ID"},
              [i \in 1..Len(df.rows) |-> [df.rows[i] EXCEPT !.GAME_ID = g]])

\* back_off with the loop running one attempt too many
back_off_one_more ==
    /\ trace' = Append(trace, Event("sleep"))
    /\ IF attempt <= max_retries
       THEN attempt' = attempt + 1 /\ fpc' = "request" /\ pbp_raw' = pbp_raw
       ELSE attempt' = attempt /\ fpc' = "returned" /\ pbp_raw' = EmptyFrame
    /\ UNCHANGED <<game_id, max_retries>>

\* back_off sleeping only when another attempt follows
back_off_no_last_sleep ==
    /\ IF attempt < max_retries
       THEN /\ trace' = Append(trace, Event("sleep"))
            /\ attempt' = attempt + 1 /\ fpc' = "request" /\ pbp_raw' = pbp_raw
       ELSE /\ trace' = trace
            /\ attempt' = attempt /\ fpc' = "returned" /\ pbp_raw' = EmptyFrame
    /\ UNCHANGED <<game_id, max_retries>>

\* back_off without the sleep
back_off_no_sleep ==
    /\ trace' = trace
    /\ IF attempt < max_retries
       THEN attempt' = attempt + 1 /\ fpc' = "request" /\ pbp_raw' = pbp_raw
       ELSE attempt' = attempt /\ fpc' = "returned" /\ pbp_raw' = EmptyFrame
    /\ UNCHANGED <<game_id, max_retries>>

\* line 165 and the loop header: the sleep, then the next attempt or, the
\* range exhausted, line 167
back_off ==
    /\ trace' = Append(trace, Event("sleep"))
    /\ IF attempt < max_retries
       THEN attempt' = attempt + 1 /\ fpc' = "request" /\ pbp_raw' = pbp_raw
       ELSE attempt' = attempt /\ fpc' = "returned" /\ pbp_raw' = EmptyFrame
    /\ UNCHANGED <<game_id, max_retries>>

\* lines 160-164: the request issued at line 146 has failed; the handler
\* reports it and stands before the sleep of line 165
after_failure ==
    /\ trace' = Append(trace, Event("request"))
    /\ fpc' = "backoff"
    /\ UNCHANGED <<game_id, max_retries, attempt, pbp_raw>>

\* lines 146-147 raise: transport error, timeout, or a non-success status
FetchRequestFails ==
    /\ fpc = "request"
    /\ after_failure
    /\ UNCHANGED <<clock_vars, filter_vars, collect_vars>>

\* lines 149-150 raise: the body is no JSON, or no object of the expected form
FetchDecodeFails ==
    /\ fpc = "request"
    /\ after_failure
    /\ UNCHANGED <<clock_vars, filter_vars, collect_vars>>

\* FetchNoActions with the empty response taken for a failed attempt
FetchNoActions_as_failure ==
    /\ fpc = "request"
    /\ after_failure
    /\ UNCHANGED <<clock_vars, filter_vars, collect_vars>>

\* line 165 to the next request or the return: the wait between two attempts
BackOff ==
    /\ fpc = "backoff"
    /\ back_off
    /\ UNCHANGED <<clock_vars, filter_vars, collect_vars>>

\* lines 152-154: the response has no "game"/"actions" entry or an empty list
FetchNoActions ==
    /\ fpc = "request"
    /\ trace' = Append(trace, Event("request"))
    /\ pbp_raw' = EmptyFrame
    /\ fpc' = "returned"
    /\ UNCHANGED <<game_id, max_retries, attempt>>
    /\ UNCHANGED <<clock_vars, filter_vars, collect_vars>>

\* lines 156-158: the response carries the actions of the game
FetchActions ==
    /\ fpc = "request"
    /\ trace' = Append(trace, Event("request"))
    /\ pbp_raw' = tagged(FeedActions(game_id), game_id)
    /\ fpc' = "returned"
    /\ UNCHANGED <<game_id, max_retries, attempt>>
    /\ UNCHANGED <<clock_vars, filter_vars, collect_vars>>

\* ------------------------------------------------------------------------
\* extract_critical_moments
\* ------------------------------------------------------------------------

\* head keeping one row more
head_one_more(rows, n) == SubSeq(rows, 1, Min({n + 1, Len(rows)}))

\* DataFrame.head(n)
head(rows, n) ==
    IF n >= 0 THEN SubSeq(rows, 1, Min({n, Len(rows)}))
    ELSE SubSeq(rows, 1, Max({0, Len(rows) + n}))

\* lines 263-264
attach_metadata(df, game_row) ==
    Frame(df.columns \cup {"GAME_DATE", "MATCHUP"},
          [i \in 1..Len(df.rows) |->
              [df.rows[i] EXCEPT !.GAME_DATE = game_row.GAME_DATE,
                                 !.MATCHUP = game_row.MATCHUP]])

RECURSIVE all_rows(_)
all_rows(frames) ==
    IF frames = << >> THEN << >> ELSE Head(frames).rows \o all_rows(Tail(frames))

RECURSIVE drop_duplicates(_)
drop_duplicates(rows) ==
    IF rows = << >> THEN << >>
    ELSE LET init == drop_duplicates(SubSeq(rows, 1, Len(rows) - 1))
             last == rows[Len(rows)]
         IN  IF \E j \in 1..Len(init) : [init[j] EXCEPT !.index = 0]
                                            = [last EXCEPT !.index = 0]
             THEN init
             ELSE Append(init, last)

\* concat followed by drop_duplicates()
concat_drop_duplicates(frames) ==
    LET rows == drop_duplicates(all_rows(frames))
    IN  Frame(UNION {frames[i].columns : i \in 1..Len(frames)},
              [i \in 1..Len(rows) |-> [rows[i] EXCEPT !.index = i - 1]])

\* concat with the frames taken last to first
concat_last_first(frames) ==
    LET rows == all_rows([i \in 1..Len(frames) |-> frames[Len(frames) + 1 - i]])
    IN  Frame(UNION {frames[i].columns : i \in 1..Len(frames)},
              [i \in 1..Len(rows) |-> [rows[i] EXCEPT !.index = i - 1]])

\* pd.concat(frames, ignore_index=True)
concat(frames) ==
    LET rows == all_rows(frames)
    IN  Frame(UNION {frames[i].columns : i \in 1..Len(frames)},
              [i \in 1..Len(rows) |-> [rows[i] EXCEPT !.index = i - 1]])

\* lines 239-247
Start ==
    /\ opc = "start"
    /\ IF games_df = << >>
       THEN /\ opc' = "done"
            /\ games' = games
       ELSE /\ opc' = "loop"
            /\ games' = IF limit.some THEN head(games_df, limit.n) ELSE games_df
    /\ game_no' = 1
    /\ UNCHANGED <<games_df, limit, all_critical, critical_df, fetched>>
    /\ UNCHANGED <<clock_vars, filter_vars, fetch_vars>>

\* lines 249-254: the next row of games, and the call of fetch_pbp_live
NextGame ==
    /\ opc = "loop"
    /\ game_no <= Len(games)
    /\ opc' = "fetching"
    /\ game_id' = games[game_no].GAME_ID
    /\ max_retries' = DefaultMaxRetries
    /\ attempt' = 1
    /\ fpc' = "request"
    /\ UNCHANGED <<pbp_raw, trace>>
    /\ UNCHANGED <<games_df, limit, games, game_no, all_critical, critical_df,
                   fetched>>
    /\ UNCHANGED <<clock_vars, filter_vars>>

\* lines 255-266: the rest of the loop body up to the pacing sleep, once
\* fetch_pbp_live has returned
ProcessGame ==
    /\ opc = "fetching"
    /\ fpc = "returned"
    /\ fetched' = Append(fetched, pbp_raw)
    /\ fpc' = "idle"
    /\ LET game_row == games[game_no]
           crit     == extract_last_3_minutes(pbp_raw)
       IN  IF empty(pbp_raw)
           THEN /\ opc' = "loop"
                /\ game_no' = game_no + 1
                /\ UNCHANGED <<all_critical, trace>>
           ELSE IF crit.raised
           THEN /\ opc' = "raised"
                /\ UNCHANGED <<game_no, all_critical, trace>>
           ELSE IF empty(crit)
           THEN /\ opc' = "loop"
                /\ game_no' = game_no + 1
                /\ UNCHANGED <<all_critical, trace>>
           ELSE /\ opc' = "pacing"
                /\ all_critical' = Append(all_critical,
                                          attach_metadata(crit, game_row))
                /\ UNCHANGED <<game_no, trace>>
    /\ UNCHANGED <<games_df, limit, games, critical_df>>
    /\ UNCHANGED <<game_id, max_retries, attempt, pbp_raw>>
    /\ UNCHANGED <<clock_vars, filter_vars>>

\* line 269 and the loop header: the pacing sleep after a game that
\* contributed
Pace ==
    /\ opc = "pacing"
    /\ trace' = Append(trace, Event("pace"))
    /\ opc' = "loop"
    /\ game_no' = game_no + 1
    /\ UNCHANGED <<games_df, limit, games, all_critical, critical_df, fetched>>
    /\ UNCHANGED <<game_id, max_retries, attempt, pbp_raw, fpc>>
    /\ UNCHANGED <<clock_vars, filter_vars>>

\* lines 271-277
Finish ==
    /\ opc = "loop"
    /\ game_no > Len(games)
    /\ opc' = "done"
    /\ critical_df' = IF all_critical = << >> THEN EmptyFrame
                      ELSE concat(all_critical)
    /\ UNCHANGED <<games_df, limit, games, game_no, all_critical, fetched>>
    /\ UNCHANGED <<clock_vars, filter_vars, fetch_vars>>

\* ------------------------------------------------------------------------
\* Calls of clock_to_seconds and of extract_last_3_minutes on their own
\* ------------------------------------------------------------------------

ClockToSeconds ==
    /\ cpc = "call"
    /\ clock_ret' = clock_to_seconds(clock_arg)
    /\ cpc' = "returned"
    /\ UNCHANGED <<clock_arg, filter_vars, collect_vars, fetch_vars>>

ExtractLast3Minutes ==
    /\ xpc = "call"
    /\ critical' = extract_last_3_minutes(pbp_df)
    /\ xpc' = "filtered"
    /\ UNCHANGED <<pbp_df, refiltered, clock_vars, collect_vars, fetch_vars>>

\* the filter applied to the frame it returned
Refilter ==
    /\ xpc = "filtered"
    /\ ~critical.raised
    /\ refiltered' = extract_last_3_minutes(critical)
    /\ xpc' = "refiltered"
    /\ UNCHANGED <<pbp_df, critical, clock_vars, collect_vars, fetch_vars>>

\* ------------------------------------------------------------------------
\* Specifications
\* ------------------------------------------------------------------------

ClockIdle == clock_arg = NoneClock /\ clock_ret = 0 /\ cpc = "idle"

FilterIdle ==
    /\ pbp_df = EmptyFrame /\ critical = EmptyFrame /\ refiltered = EmptyFrame
    /\ xpc = "idle"

CollectIdle ==
    /\ games_df = << >> /\ limit = NoLimit /\ games = << >> /\ game_no = 0
    /\ all_critical = << >> /\ critical_df = EmptyFrame /\ fetched = << >>
    /\ opc = "idle"

FetchIdle ==
    /\ game_id = NoValue /\ max_retries = DefaultMaxRetries /\ attempt = 0
    /\ pbp_raw = EmptyFrame /\ fpc = "idle" /\ trace = << >>

CollectCall(refs) ==
    /\ ClockIdle /\ FilterIdle /\ FetchIdle
    /\ games_df \in SeqsUpTo(refs, MaxGames)
    /\ limit \in Limits
    /\ games = << >> /\ game_no = 0 /\ all_critical = << >>
    /\ critical_df = EmptyFrame /\ fetched = << >>
    /\ opc = "start"

\* extract_critical_moments(games_df, limit) against a feed whose records
\* hold integers or nothing in period and scores
Init == CollectCall(GameRefs)

Next ==
    \/ Start
    \/ NextGame
    \/ FetchRequestFails
    \/ FetchDecodeFails
    \/ FetchNoActions
    \/ FetchActions
    \/ BackOff
    \/ ProcessGame
    \/ Pace
    \/ Finish

Spec == Init /\ [][Next]_vars

\* extract_critical_moments(games_df, limit) against a feed that may also
\* answer with a malformed value
InitAnyFeed == CollectCall(AnyGameRefs)

SpecAnyFeed == InitAnyFeed /\ [][Next]_vars

\* fetch_pbp_live(game_id, max_retries) called directly
InitFetch ==
    /\ ClockIdle /\ FilterIdle /\ CollectIdle
    /\ game_id \in AnyGameIds
    /\ max_retries \in (0 - 1)..MaxRetries
    /\ attempt = 1
    /\ pbp_raw = EmptyFrame
    /\ fpc = IF max_retries >= 1 THEN "request" ELSE "returned"
    /\ trace = << >>

NextFetch ==
    \/ FetchRequestFails
    \/ FetchDecodeFails
    \/ FetchNoActions
    \/ FetchActions
    \/ BackOff

SpecFetch == InitFetch /\ [][NextFetch]_vars

\* the raw event records a table is built of: every combination of a period,
\* a clock and the two scores, each score present or not, three records
\* without a period or a clock key, and one whose clock starts as a duration
\* and is none
SamplePeriods == {IntCell(3), IntCell(4), IntCell(5)}

SampleClocks == {C0300, C0301, CGarbage}

SampleHomeScores == {IntCell(80), Absent}

SampleAwayScores == {IntCell(75), Absent}

DegradedEvents ==
    { RawEvent(Absent, C0300, IntCell(80), IntCell(75)),
      RawEvent(IntCell(4), AbsentClock, IntCell(80), IntCell(75)),
      RawEvent(Absent, AbsentClock, Absent, Absent) }

BrokenDurationEvents ==
    { RawEvent(IntCell(4), CBrokenDuration, IntCell(80), IntCell(75)) }

RawEvents ==
    {RawEvent(p, c, h, a) : p \in SamplePeriods, c \in SampleClocks,
                            h \in SampleHomeScores, a \in SampleAwayScores}
    \cup DegradedEvents \cup BrokenDurationEvents

\* extract_last_3_minutes(pbp_df) called directly
InitFilter ==
    /\ ClockIdle /\ CollectIdle /\ FetchIdle
    /\ pbp_df \in {DataFrame(actions) : actions \in SeqsUpTo(RawEvents, MaxRows)}
    /\ critical = EmptyFrame /\ refiltered = EmptyFrame
    /\ xpc = "call"

NextFilter == ExtractLast3Minutes \/ Refilter

SpecFilter == InitFilter /\ [][NextFilter]_vars

\* clock_to_seconds(clock_arg) called directly
InitClock ==
    /\ FilterIdle /\ CollectIdle /\ FetchIdle
    /\ clock_arg \in ClockInputs
    /\ clock_ret = 0
    /\ cpc = "call"

NextClock == ClockToSeconds

SpecClock == InitClock /\ [][NextClock]_vars

\* extract_critical_moments or extract_last_3_minutes called, each on its own
InitPipeline == Init \/ InitFilter

NextPipeline == Next \/ NextFilter

SpecPipeline == InitPipeline /\ [][NextPipeline]_vars

\* ------------------------------------------------------------------------
\* Properties: shapes of clock strings, as the documentation words them
\* ------------------------------------------------------------------------

UnsignedInteger(s) == Len(s) > 0 /\ \A i \in 1..Len(s) : s[i] \in Digits

DigitsOrNone(s) == \A i \in 1..Len(s) : s[i] \in Digits

\* digits, digits "." [digits], or "." digits
UnsignedNumber(s) ==
    \/ UnsignedInteger(s)
    \/ \E d \in 1..Len(s) :
          /\ s[d] = "."
          /\ DigitsOrNone(SubSeq(s, 1, d - 1))
          /\ DigitsOrNone(SubSeq(s, d + 1, Len(s)))
          /\ Len(s) > 1

\* the digits before the point of an unsigned number
WholePart(s) ==
    IF Positions(s, ".") = {} THEN s
    ELSE SubSeq(s, 1, Min(Positions(s, ".")) - 1)

\* the digits after the point of an unsigned number
FractionPart(s) ==
    IF Positions(s, ".") = {} THEN << >>
    ELSE SubSeq(s, Min(Positions(s, ".")) + 1, Len(s))

\* s without the whitespace around it
Trimmed(s) ==
    LET I == {i \in 1..Len(s) : s[i] \notin Spaces}
    IN  IF I = {} THEN << >> ELSE SubSeq(s, Min(I), Max(I))

WithoutSign(s) == IF s # << >> /\ s[1] \in {"+", "-"} THEN SubSeq(s, 2, Len(s)) ELSE s

\* a numeric token: blanks around it and one sign allowed
NumberToken(s) == UnsignedNumber(WithoutSign(Trimmed(s)))

IntegerToken(s) == UnsignedInteger(WithoutSign(Trimmed(s)))

\* <integer>:<number>
ColonShape(s) ==
    /\ Cardinality(Positions(s, ":")) = 1
    /\ LET c == Min(Positions(s, ":"))
       IN  IntegerToken(SubSeq(s, 1, c - 1)) /\ NumberToken(SubSeq(s, c + 1, Len(s)))

\* a string with the duration designator "PT" in front
DurationPrefixed(s) == Len(s) >= 2 /\ SubSeq(s, 1, 2) = <<"P", "T">>

\* "PT<m>M<s>S", either component absent: the minutes digits and the seconds
\* number of the body, << >> for an absent component
DurationMinutes(body) ==
    IF Positions(body, "M") = {} THEN << >>
    ELSE SubSeq(body, 1, Min(Positions(body, "M")) - 1)

DurationRest(body) ==
    IF Positions(body, "M") = {} THEN body
    ELSE SubSeq(body, Min(Positions(body, "M")) + 1, Len(body))

DurationSeconds(body) ==
    LET r == DurationRest(body)
    IN  IF r = << >> THEN << >> ELSE SubSeq(r, 1, Len(r) - 1)

DurationShape(s) ==
    /\ DurationPrefixed(s)
    /\ LET body == SubSeq(s, 3, Len(s))
           r    == DurationRest(body)
       IN  /\ Positions(body, "M") # {} => UnsignedInteger(DurationMinutes(body))
           /\ r # << >> =>
                /\ r[Len(r)] = "S"
                /\ UnsignedNumber(DurationSeconds(body))
                /\ UnsignedInteger(WholePart(DurationSeconds(body)))
                /\ Positions(DurationSeconds(body), ".") # {}
                      => UnsignedInteger(FractionPart(DurationSeconds(body)))

\* the natural number, of any size, that a string of digits writes
Natural(s) == BigNorm(DigitSeq(s))

\* an unsigned number rounded to the nearest integer, a tie to the even one
Rounded(s) ==
    LET n     == Natural(WholePart(s))
        f     == DigitSeq(FractionPart(s))
        above == f # << >> /\ (f[1] > 5 \/ (f[1] = 5 /\ \E i \in 2..Len(f) : f[i] # 0))
        tie   == f # << >> /\ f[1] = 5 /\ \A i \in 2..Len(f) : f[i] = 0
    IN  IF above \/ (tie /\ BigOdd(n)) THEN BigAdd(n, <<1>>) ELSE n

\* a number in any notation float() reads: grouped digits, an exponent
NumericLiteral(s) == float_literal(s).kind = "number"

\* <integer>:<number> in any notation int() and float() read
ColonLiteral(s) ==
    /\ Cardinality(Positions(s, ":")) = 1
    /\ LET c == Min(Positions(s, ":"))
       IN  py_int(SubSeq(s, 1, c - 1)).ok /\ NumericLiteral(SubSeq(s, c + 1, Len(s)))

\* none of the MM:SS, PT-duration or bare-numeric shapes
Unparseable(s) ==
    /\ ~DurationShape(Trimmed(s))
    /\ ~ColonShape(Trimmed(s)) /\ ~ColonLiteral(Trimmed(s))
    /\ ~NumberToken(s) /\ ~NumericLiteral(s)

Count(e) == Cardinality({i \in 1..Len(trace) : trace[i].e = e})

\* ------------------------------------------------------------------------
\* Properties
\* ------------------------------------------------------------------------

\* the rows of the input table (by position) that lie in the critical window
WindowRows ==
    {i \in 1..Len(pbp_df.rows) :
        LET r == pbp_df.rows[i]
        IN  /\ r.period.t = "int"
            /\ \/ r.period.v = 4 /\ clock_to_seconds(r.clock) <= 180
               \/ r.period.v > 4}

\* C1: for a table with the period and clock columns, the rows
\* extract_last_3_minutes returns are exactly the input rows with
\* (period = 4 and time_remaining <= 180) or period > 4, time_remaining being
\* clock_to_seconds of the row's own clock.
C1_WindowExact ==
    (xpc # "call" /\ {"period", "clock"} \subseteq pbp_df.columns) =>
        /\ ~critical.raised
        /\ {critical.rows[k].index + 1 : k \in 1..Len(critical.rows)} = WindowRows
        /\ \A k \in 1..Len(critical.rows) :
              LET r == critical.rows[k]
                  a == pbp_df.rows[r.index + 1]
              IN  /\ r.period = a.period
                  /\ r.clock = a.clock
                  /\ r.time_remaining = IntCell(clock_to_seconds(a.clock))

\* a period-4 row at 180 s is returned, one at 181 s of the same table is not,
\* and so is no row of period 3
C1_Witness ==
    /\ xpc = "filtered"
    /\ Len(pbp_df.rows) = 2
    /\ pbp_df.rows[1].period = IntCell(4) /\ pbp_df.rows[1].clock = C0301
    /\ pbp_df.rows[2].period = IntCell(4) /\ pbp_df.rows[2].clock = C0300
    /\ Len(critical.rows) = 1
    /\ critical.rows[1].index = 1
    /\ critical.rows[1].time_remaining = IntCell(180)

ScoreOrZero(c) == IF c.t = "int" THEN c.v ELSE 0

\* C2: every row extract_last_3_minutes returns for a table with the period
\* and clock columns has score_diff = (home_score or 0) - (away_score or 0),
\* a missing score or a score column the feed does not supply counting as 0.
C2_ScoreDiff ==
    (xpc # "call" /\ ~critical.raised
        /\ {"period", "clock"} \subseteq pbp_df.columns) =>
        \A k \in 1..Len(critical.rows) :
            LET a == pbp_df.rows[critical.rows[k].index + 1]
            IN  critical.rows[k].score_diff
                    = IntCell(ScoreOrZero(a.homeScore) - ScoreOrZero(a.awayScore))

\* C3: clock_to_seconds returns an integer >= 0 for every input.
C3_NonNegative == cpc = "returned" => clock_ret >= 0

\* C4: extract_critical_moments never raises, whatever the feed answers.
C4_NeverRaises == opc # "raised"

\* C5: a fetch_pbp_live call never issues more than max_retries requests, and
\* one whose every request failed has issued exactly max_retries requests
\* (max_retries >= 1) and returns the empty frame.
C5_Exhaustion ==
    /\ Count("request") <= Max({max_retries, 0})
    /\ (fpc = "returned" /\ max_retries >= 1 /\ Count("sleep") = Count("request")) =>
          /\ Count("request") = max_retries
          /\ pbp_raw = EmptyFrame

C5_Witness ==
    /\ fpc = "returned" /\ max_retries = 3
    /\ Count("request") = 3 /\ Count("sleep") = 3
    /\ pbp_raw = EmptyFrame

\* C6: a fetch_pbp_live call that returns actions after k failed requests has
\* issued k + 1 requests (k < max_retries) and slept k times, each sleep right
\* after a failed request and before the next one, the successful request being
\* the last event; every row of the result carries the requested game_id.
C6_RetryThenSuccess ==
    (fpc = "returned" /\ ~empty(pbp_raw)) =>
        LET k == Count("sleep")
        IN  /\ k < max_retries
            /\ Len(trace) = 2 * k + 1
            /\ \A i \in 1..Len(trace) :
                  /\ trace[i].e = IF i % 2 = 1 THEN "request" ELSE "sleep"
                  /\ trace[i].attempt = (i + 1) \div 2
            /\ Len(pbp_raw.rows) = Len(FeedActions(game_id))
            /\ "GAME_ID" \in pbp_raw.columns
            /\ \A i \in 1..Len(pbp_raw.rows) :
                  /\ pbp_raw.rows[i].GAME_ID = game_id
                  /\ pbp_raw.rows[i].period = Cell(FeedActions(game_id)[i].period)
                  /\ pbp_raw.rows[i].clock = ClockCell(FeedActions(game_id)[i].clock)

C6_Witness ==
    /\ fpc = "returned" /\ max_retries = 3 /\ ~empty(pbp_raw)
    /\ Count("sleep") = 2 /\ Count("request") = 3

\* C7: clock_to_seconds returns 0 for an input that is no string, is empty or
\* blank, or has none of the MM:SS, PT-duration or bare-numeric shapes.
C7_UnparseableIsZero ==
    (/\ cpc = "returned"
     /\ \/ clock_arg.kind # "str"
        \/ Trimmed(clock_arg.s) = << >>
        \/ Unparseable(clock_arg.s)) => clock_ret = 0

\* C8: for "PT<m>M<s>S", either component absent (= 0) and <s> possibly with a
\* fraction, clock_to_seconds returns m * 60 + round(s), round being to the
\* nearest integer (a tie to the even one).
C8_DurationValue ==
    (cpc = "returned" /\ clock_arg.kind = "str" /\ DurationShape(Trimmed(clock_arg.s))) =>
        LET body == SubSeq(Trimmed(clock_arg.s), 3, Len(Trimmed(clock_arg.s)))
        IN  /\ clock_ret >= 0
            /\ BigOfInt(clock_ret)
                  = BigAdd(BigMulSmall(Natural(DurationMinutes(body)), 60),
                           Rounded(DurationSeconds(body)))

\* C9: "MM:SS" with unsigned MM and SS gives MM * 60 + SS, a fraction of SS cut
\* off; a bare unsigned number gives its whole part; blanks around the string
\* change nothing.
C9_ColonAndBareValue ==
    (cpc = "returned" /\ clock_arg.kind = "str") =>
        LET s == Trimmed(clock_arg.s)
            c == Min(Positions(s, ":"))
        IN  /\ (/\ Cardinality(Positions(s, ":")) = 1
                /\ UnsignedInteger(SubSeq(s, 1, c - 1))
                /\ UnsignedNumber(SubSeq(s, c + 1, Len(s)))) =>
                   /\ clock_ret >= 0
                   /\ BigOfInt(clock_ret)
                         = BigAdd(BigMulSmall(Natural(SubSeq(s, 1, c - 1)), 60),
                                  Natural(WholePart(SubSeq(s, c + 1, Len(s)))))
            /\ UnsignedNumber(s) =>
                   /\ clock_ret >= 0
                   /\ BigOfInt(clock_ret) = Natural(WholePart(s))

\* what game number i of the list contributes to the result: nothing when its
\* fetch or its filtered set is empty, else the filtered rows, each with the
\* GAME_ID, GAME_DATE and MATCHUP of the i-th GameReference
Contribution(i) ==
    IF empty(fetched[i]) \/ empty(extract_last_3_minutes(fetched[i])) THEN << >>
    ELSE LET rows == extract_last_3_minutes(fetched[i]).rows
         IN  [k \in 1..Len(rows) |->
                [rows[k] EXCEPT !.GAME_ID = games[i].GAME_ID,
                                !.GAME_DATE = games[i].GAME_DATE,
                                !.MATCHUP = games[i].MATCHUP]]

RECURSIVE Contributions(_)
Contributions(n) ==
    IF n = 0 THEN << >> ELSE Contributions(n - 1) \o Contribution(n)

\* C10: extract_critical_moments raises nothing, and the frame it returns
\* holds the contributions of the games in list order, a GameReference listed
\* twice contributing twice, and is the empty frame when no game contributes.
C10_Concatenation ==
    /\ opc # "raised"
    /\ opc = "done" =>
        /\ Len(fetched) = Len(games)
        /\ \A i \in 1..Len(games) :
              empty(fetched[i])
              \/ fetched[i] = tagged(FeedActions(games[i].GAME_ID), games[i].GAME_ID)
        /\ Len(critical_df.rows) = Len(Contributions(Len(games)))
        /\ \A k \in 1..Len(critical_df.rows) :
              critical_df.rows[k] = [Contributions(Len(games))[k] EXCEPT !.index = k - 1]
        /\ Contributions(Len(games)) = << >> => critical_df = EmptyFrame

C10_Witness ==
    /\ opc = "done"
    /\ games = <<GameRef("G1"), GameRef("G1")>>
    /\ Len(critical_df.rows) = 6
    /\ critical_df.rows[1] = [critical_df.rows[4] EXCEPT !.index = 0]

\* the records of the feed of game g that lie in the critical window, in the
\* order the feed emits them
InWindow(a) ==
    /\ a.period.t = "int"
    /\ \/ a.period.v = 4 /\ clock_to_seconds(ClockCell(a.clock)) <= 180
       \/ a.period.v > 4

FeedWindow(g) ==
    LET picked == SelectSeq(FeedActions(g), InWindow)
    IN  [k \in 1..Len(picked) |-> [game |-> g, a |-> picked[k]]]

\* the window records of the first n games whose fetch returned actions
RECURSIVE Emitted(_)
Emitted(n) ==
    IF n = 0 THEN << >>
    ELSE Emitted(n - 1) \o (IF empty(fetched[n]) THEN << >>
                            ELSE FeedWindow(games[n].GAME_ID))

\* C11: the rows extract_last_3_minutes selects come out in input order, each
\* once; the frame extract_critical_moments returns holds, game after game in
\* list order, the window records of each game unbroken and in the order the
\* feed emitted them, whatever their time_remaining.
C11_OrderPreserved ==
    /\ (xpc # "call" /\ ~critical.raised
            /\ {"period", "clock"} \subseteq pbp_df.columns) =>
          /\ \A k, l \in 1..Len(critical.rows) :
                k < l => critical.rows[k].index < critical.rows[l].index
          /\ \A i \in WindowRows :
                Cardinality({k \in 1..Len(critical.rows) :
                                critical.rows[k].index + 1 = i}) = 1
    /\ opc = "done" =>
          /\ Len(critical_df.rows) = Len(Emitted(Len(fetched)))
          /\ \A k \in 1..Len(critical_df.rows) :
                LET r == critical_df.rows[k]
                    e == Emitted(Len(fetched))[k]
                IN  /\ r.GAME_ID = e.game
                    /\ r.period = Cell(e.a.period)
                    /\ r.clock = ClockCell(e.a.clock)

\* G1 then G5: the rows of G1 in feed order with time_remaining 180, 270, 0
\* (period 4, overtime, period 4), then the row of G5
C11_Witness ==
    /\ opc = "done"
    /\ games = <<GameRef("G1"), GameRef("G5")>>
    /\ Len(critical_df.rows) = 4
    /\ critical_df.rows[1].time_remaining = IntCell(180)
    /\ critical_df.rows[2].time_remaining = IntCell(270)
    /\ critical_df.rows[3].time_remaining = IntCell(0)
    /\ critical_df.rows[4].GAME_ID = "G5"

\* how many GameReferences the call is to process
Quota == IF limit.some THEN Min({limit.n, Len(games_df)}) ELSE Len(games_df)

IsFirstRequest(ev) == ev.e = "request" /\ ev.attempt = 1

FirstRequests == SelectSeq(trace, IsFirstRequest)

\* C12: with limit = L >= 0 extract_critical_moments fetches the first
\* min(L, n) GameReferences of the list, in list order, and none beyond; with
\* limit = None it fetches all n in list order.
C12_LimitRespected ==
    /\ \A i \in 1..Len(trace) :
          trace[i].e = "request" =>
              /\ trace[i].no \in 1..Quota
              /\ trace[i].game = games_df[trace[i].no].GAME_ID
    /\ \A k \in 1..Len(FirstRequests) : FirstRequests[k].no = k
    /\ opc = "done" => Len(FirstRequests) = Quota /\ Len(fetched) = Quota

\* two GameReferences and limit = 1: the first is fetched, the second is not
C12_Witness ==
    /\ opc = "done"
    /\ Len(games_df) = 2 /\ limit = Limit(1)
    /\ Len(FirstRequests) = 1
    /\ FirstRequests[1].game = games_df[1].GAME_ID
    /\ games_df[2].GAME_ID # games_df[1].GAME_ID

\* C13: the fetch of a game starts only after the pacing delay of the game
\* before it, whether that game contributed, had an empty fetch or had an
\* empty filtered set.
C13_PacedAfterEveryGame ==
    \A i \in 1..Len(trace) :
        (IsFirstRequest(trace[i]) /\ trace[i].no > 1) =>
            \E j \in 1..(i - 1) :
                trace[j].e = "pace" /\ trace[j].no = trace[i].no - 1

\* a clock that is no string, is blank, or has none of the three shapes
Malformed(c) ==
    c.kind # "str" \/ Trimmed(c.s) = << >> \/ Unparseable(c.s)

\* row j of the input table filtered on its own
Alone(j) == extract_last_3_minutes(Frame(pbp_df.columns, << pbp_df.rows[j] >>))

\* C14: a row of period 4 or of overtime whose clock is malformed is returned
\* with time_remaining = 0, and every row is selected, and gets its
\* time_remaining, exactly as it would were it the only row of the table.
C14_MalformedClockKept ==
    (xpc # "call" /\ ~critical.raised
        /\ {"period", "clock"} \subseteq pbp_df.columns) =>
        /\ \A j \in 1..Len(pbp_df.rows) :
              (/\ pbp_df.rows[j].period.t = "int"
               /\ pbp_df.rows[j].period.v >= 4
               /\ Malformed(pbp_df.rows[j].clock)) =>
                  \E k \in 1..Len(critical.rows) :
                      /\ critical.rows[k].index = j - 1
                      /\ critical.rows[k].time_remaining = IntCell(0)
        /\ \A j \in 1..Len(pbp_df.rows) :
              IF Alone(j).rows = << >>
              THEN \A k \in 1..Len(critical.rows) : critical.rows[k].index # j - 1
              ELSE \E k \in 1..Len(critical.rows) :
                      /\ critical.rows[k].index = j - 1
                      /\ critical.rows[k].time_remaining
                            = Alone(j).rows[1].time_remaining

\* C15: extract_last_3_minutes applied to the frame it returned gives that
\* frame again: the same rows in the same order, with the same time_remaining
\* and score_diff.
C15_Idempotent ==
    xpc = "refiltered" =>
        /\ ~refiltered.raised
        /\ refiltered = critical

\* of two period-4 rows the one at 180 s is kept, and is kept unchanged by
\* the second pass
C15_Witness ==
    /\ xpc = "refiltered"
    /\ Len(pbp_df.rows) = 2
    /\ Len(critical.rows) = 1
    /\ critical.rows[1].time_remaining = IntCell(180)
    /\ critical.rows[1].score_diff = IntCell(5)
    /\ refiltered.rows = critical.rows

\* a table without records, or without the period or the clock column
Unusable(df) ==
    df.rows = << >> \/ "period" \notin df.columns \/ "clock" \notin df.columns

\* the games fetched so far whose table is usable
UsableFetches == {i \in 1..Len(fetched) : ~Unusable(fetched[i])}

\* C16: extract_last_3_minutes returns an empty frame and raises nothing for
\* a table without records or without the period or the clock column; in
\* extract_critical_moments a game with such a table adds no row and the
\* games after it are fetched.
C16_UnusableSchemaSkipped ==
    /\ (xpc # "call" /\ Unusable(pbp_df)) =>
          ~critical.raised /\ empty(critical)
    /\ opc # "raised"
    /\ \A i \in 1..Len(fetched) : Unusable(fetched[i]) => game_no > i
    /\ Len(all_critical) <= Cardinality(UsableFetches)
    /\ \A f \in 1..Len(all_critical) :
          \E i \in UsableFetches :
              \A k \in 1..Len(all_critical[f].rows) :
                  all_critical[f].rows[k].GAME_ID = games[i].GAME_ID
    /\ opc = "done" => Len(fetched) = Len(games)

\* G3, whose records have no period key, then G1: the result holds the three
\* window rows of G1 and nothing of G3
C16_Witness ==
    /\ opc = "done"
    /\ games = <<GameRef("G3"), GameRef("G1")>>
    /\ ~empty(fetched[1]) /\ "period" \notin fetched[1].columns
    /\ Len(critical_df.rows) = 3
    /\ \A k \in 1..3 : critical_df.rows[k].GAME_ID = "G1"

\* requests and sleeps are issued game after game, a retry loop is not
\* interrupted, and no game gets more than the default number of attempts
OneGameAtATime ==
    /\ \A i, j \in 1..Len(trace) : i < j => trace[i].no <= trace[j].no
    /\ \A i \in 1..Len(trace) :
          trace[i].e = "request" =>
              /\ trace[i].attempt \in 1..DefaultMaxRetries
              /\ trace[i].attempt > 1 =>
                    /\ trace[i - 2].e = "request" /\ trace[i - 1].e = "sleep"
                    /\ trace[i - 2].no = trace[i].no
                    /\ trace[i - 2].attempt = trace[i].attempt - 1
              /\ (/\ i + 2 <= Len(trace)
                  /\ trace[i + 1].e = "sleep"
                  /\ trace[i].attempt < DefaultMaxRetries) =>
                    /\ trace[i + 2].e = "request"
                    /\ trace[i + 2].no = trace[i].no
    /\ Count("request") <= DefaultMaxRetries * Quota
    /\ fpc = "request" => Len(fetched) = game_no - 1

\* an upper bound of the steps the run can still take: per game the call of
\* fetch_pbp_live, its attempts with their sleeps, the rest of the loop body
\* and the pacing sleep, then the return
StepsLeft ==
    LET per_game == 2 * DefaultMaxRetries + 3
    IN  CASE opc = "start" -> per_game * Len(games_df) + 2
          [] opc = "loop" -> per_game * (Len(games) + 1 - game_no) + 1
          [] opc = "fetching" /\ fpc = "request" ->
                 per_game * (Len(games) - game_no) + 3
                     + 2 * (DefaultMaxRetries + 1 - attempt)
          [] opc = "fetching" /\ fpc = "backoff" ->
                 per_game * (Len(games) - game_no) + 2
                     + 2 * (DefaultMaxRetries + 1 - attempt)
          [] opc = "fetching" /\ fpc = "returned" ->
                 per_game * (Len(games) - game_no) + 3
          [] opc = "pacing" -> per_game * (Len(games) - game_no) + 2
          [] OTHER -> 0

\* the run has returned, or the statement it is at can be executed
RunsOn ==
    \/ opc = "done"
    \/ opc = "start"
    \/ opc = "loop"
    \/ opc = "fetching" /\ fpc \in {"request", "backoff", "returned"}
    \/ opc = "pacing"

\* C17: extract_critical_moments fetches one game at a time: the first
\* request for a game comes after the fetch of the game before it has
\* finished, the requests in between are that game's, a run over n games
\* issues at most 3 * n requests, and the run ends: until it has returned it
\* can take a step, and every step lowers a bound of the steps still to come.
C17_Sequential ==
    /\ [](OneGameAtATime /\ RunsOn /\ StepsLeft >= 0)
    /\ [][StepsLeft' < StepsLeft]_vars

\* two games, every request failing: six requests, then the run has ended
C17_Witness ==
    /\ opc = "done"
    /\ Len(games) = 2
    /\ Count("request") = 6 /\ Count("sleep") = 6
    /\ trace[6].no = 1 /\ trace[7].no = 2

\* C18: a response that decodes and holds no action makes fetch_pbp_live
\* return the empty frame at that attempt, with no sleep and no further
\* request, attempts remaining or not; a response that does not decode is a
\* failed attempt: a sleep follows, and the next attempt if one remains.
C18_EmptyNotRetried ==
    /\ [][FetchNoActions =>
            /\ fpc' = "returned" /\ pbp_raw' = EmptyFrame
            /\ trace' = Append(trace, Event("request"))]_vars
    /\ [][fpc # "returned"]_vars
    /\ [][FetchDecodeFails =>
            /\ trace' = Append(trace, Event("request"))
            /\ fpc' = "backoff"]_vars
    /\ [][fpc = "backoff" =>
            /\ trace' = Append(trace, Event("sleep"))
            /\ IF attempt < max_retries
               THEN fpc' = "request" /\ attempt' = attempt + 1
               ELSE fpc' = "returned" /\ pbp_raw' = EmptyFrame]_vars

\* the first response has no actions: the call has returned the empty frame
\* after one request, without a sleep, two attempts unused
C18_Witness ==
    /\ fpc = "returned" /\ max_retries = 3
    /\ empty(pbp_raw)
    /\ Len(trace) = 1 /\ trace[1].e = "request" /\ trace[1].attempt = 1

\* a step in which the attempt fails
AttemptFails == FetchRequestFails \/ FetchDecodeFails

\* a step in which the request gets a response that decodes
AttemptAnswered == FetchNoActions \/ FetchActions

\* C19: in a fetch_pbp_live call every failed attempt is followed by one
\* sleep and nothing else is, the last failed attempt included: a call that
\* exhausts its attempts has slept max_retries times, the last sleep followed
\* by no request, and returns the empty frame; with max_retries <= 0 the call
\* requests nothing, does not sleep and returns the empty frame.
C19_SleepPerFailure ==
    /\ [][AttemptFails =>
            /\ Count("sleep")' = Count("sleep")
            /\ Count("request")' = Count("request") + 1
            /\ fpc' = "backoff"]_vars
    /\ [][fpc = "backoff" =>
            /\ Count("sleep")' = Count("sleep") + 1
            /\ Count("request")' = Count("request")
            /\ trace'[Len(trace')].e = "sleep"
            /\ attempt = max_retries =>
                  /\ fpc' = "returned" /\ pbp_raw' = EmptyFrame
                  /\ Count("sleep")' = max_retries]_vars
    /\ [][AttemptAnswered =>
            /\ Count("sleep")' = Count("sleep")
            /\ Count("request")' = Count("request") + 1
            /\ fpc' = "returned"]_vars
    /\ [](\A i \in 1..Len(trace) :
            /\ trace[i].e = "sleep" =>
                  /\ i > 1 /\ trace[i - 1].e = "request"
                  /\ trace[i - 1].attempt = trace[i].attempt
            /\ (trace[i].e = "request" /\ i < Len(trace)) =>
                  trace[i + 1].e = "sleep")
    /\ [](fpc = "returned" => Count("request") - Count("sleep") \in {0, 1})
    /\ [](fpc = "backoff" => Count("request") = Count("sleep") + 1)
    /\ [](fpc = "request" => Count("request") = Count("sleep"))
    /\ [](max_retries <= 0 =>
            fpc = "returned" /\ trace = << >> /\ pbp_raw = EmptyFrame)

\* two attempts, both failed: request, sleep, request, sleep, and the call
\* has returned the empty frame
C19_Witness ==
    /\ fpc = "returned" /\ max_retries = 2
    /\ Len(trace) = 4
    /\ trace[3].e = "request" /\ trace[4].e = "sleep" /\ trace[4].attempt = 2
    /\ pbp_raw = EmptyFrame

====
